---- MODULE Spec2Model ----
(***************************************************************************)
(* Model of the PostgreSQL backend of dcrtimed (package postgres).         *)
(*                                                                         *)
(* The database is persistent state: which of the two tables exist and     *)
(* the rows they hold.  The process state is the Postgres context built    *)
(* by New, the cron scheduler that New starts and the goroutines cron      *)
(* spawns for the registered flush job.                                    *)
(***************************************************************************)
EXTENDS Naturals, Integers, Sequences, FiniteSets, TLC

\* ---------------------------------------------------------------- bounds
NumDigests  == 2     \* distinct digest values a client may submit
MaxPutLen   == 2     \* longest slice handed to one Put call
MaxTicks    == 3     \* scheduler ticks per process lifetime
MaxRestarts == 2     \* process exits followed by a new call of New

\* ------------------------------------------------------------- constants
tableRecords == "records"
tableAnchors == "anchors"

nil  == "nil"
NULL == "NULL"

Digests    == 1 .. NumDigests
TableNames == {tableAnchors, tableRecords}

Range(s) == {s[i] : i \in 1 .. Len(s)}

SeqsUpTo(S, n) == UNION {[1 .. k -> S] : k \in 0 .. n}

\* Outcomes of the database round trips of hasTable and of db.Exec.
HasFaults  == {"ok", "query", "scan", "iter"}
ExecFaults == {"ok", "exec"}

VARIABLES
    tables,       \* names of the tables present in schema public
    anchors,      \* rows of public.anchors
    records,      \* rows of public.records
    pg,           \* "none": no context, "up": New returned a context,
                  \* "failed": New returned an error
    newErr,       \* error returned by the last call of New
    ctErr,        \* error returned by the last call of createTables
    ctBefore,     \* tables present when the last createTables call began
    dblog,        \* statements the last createTables call sent, in order
    mutex,        \* Postgres.RWMutex
    running,      \* flush job goroutines spawned by cron and not yet returned
    fired,        \* scheduler ticks fired in this process
    completed,    \* flush jobs that have returned in this process
    walletCalls,  \* calls made on pg.wallet
    accepted,     \* digests handed to a Put call that returned a nil error
    putRet,       \* what the last Put call returned
    restarts      \* process exits so far

vars == <<tables, anchors, records, pg, newErr, ctErr, ctBefore, dblog, mutex,
          running, fired, completed, walletCalls, accepted, putRet, restarts>>

\* ---------------------------------------------------------------- schema
\* A row of public.records: anchor_merkle is NULL until the record is
\* linked to an anchor.
PendingDigests == {r \in records : r.anchor_merkle = NULL}

\* ------------------------------------------------------------- hasTable
\* db is the set of tables present; fault is the outcome of the round trip.
\* "iter": rows.Next() reports false because of an iteration error that the
\* function never inspects (rows.Err() is not called), so it returns the
\* zero value of exists with a nil error.
hasTable(db, name, fault) ==
    CASE fault = "query" -> [exists |-> FALSE, err |-> "query"]
      [] fault = "scan"  -> [exists |-> FALSE, err |-> "scan"]
      [] fault = "iter"  -> [exists |-> FALSE, err |-> nil]
      [] OTHER           -> [exists |-> name \in db, err |-> nil]

\* --------------------------------------------------- createAnchorsTable
\* One Exec of CREATE TABLE plus two CREATE INDEX: the statements run as one
\* implicit transaction, so the table appears with both indexes or not at all.
createAnchorsTable(db, fault) ==
    IF fault # "ok" THEN [tables |-> db, err |-> "exec"]
    ELSE IF tableAnchors \in db THEN [tables |-> db, err |-> "exists"]
    ELSE [tables |-> db \cup {tableAnchors}, err |-> nil]

\* --------------------------------------------------- createRecordsTable
\* The foreign key records_anchors_fkey needs public.anchors to exist.
createRecordsTable(db, fault) ==
    IF fault # "ok" THEN [tables |-> db, err |-> "exec"]
    ELSE IF tableRecords \in db THEN [tables |-> db, err |-> "exists"]
    ELSE IF tableAnchors \notin db THEN [tables |-> db, err |-> "noanchors"]
    ELSE [tables |-> db \cup {tableRecords}, err |-> nil]

HasEntry(name, r) ==
    [op |-> "hasTable", name |-> name, exists |-> r.exists, err |-> r.err]

CreateEntry(name, r) ==
    [op |-> "create", name |-> name, exists |-> FALSE, err |-> r.err]

\* A variant of createTables that does not return when the first existence
\* check fails: it treats the table as absent and carries on.
createTablesIgnoreErr(db, f) ==
    LET h1 == hasTable(db, tableAnchors, f.ha)
        c1 == createAnchorsTable(db, f.ca)
        l1 == <<HasEntry(tableAnchors, h1)>>
        mk == h1.err # nil \/ ~h1.exists
        db1 == IF mk THEN c1.tables ELSE db
        l2 == IF mk THEN Append(l1, CreateEntry(tableAnchors, c1)) ELSE l1
        h2 == hasTable(db1, tableRecords, f.hr)
        l3 == Append(l2, HasEntry(tableRecords, h2))
        c2 == createRecordsTable(db1, f.cr)
    IN  IF mk /\ c1.err # nil THEN [tables |-> db1, log |-> l2, err |-> c1.err]
        ELSE IF h2.err # nil THEN [tables |-> db1, log |-> l3, err |-> h2.err]
        ELSE IF h2.exists THEN [tables |-> db1, log |-> l3, err |-> nil]
        ELSE [tables |-> c2.tables,
              log |-> Append(l3, CreateEntry(tableRecords, c2)),
              err |-> c2.err]

\* --------------------------------------------------------- createTables
\* f gives the outcome of each of the four possible round trips:
\* ha, hr for the existence checks, ca, cr for the two creations.
createTables(db, f) ==
    LET h1 == hasTable(db, tableAnchors, f.ha)
        l1 == <<HasEntry(tableAnchors, h1)>>
        c1 == createAnchorsTable(db, f.ca)
        db1 == IF h1.exists THEN db ELSE c1.tables
        l2 == IF h1.exists THEN l1 ELSE Append(l1, CreateEntry(tableAnchors, c1))
        h2 == hasTable(db1, tableRecords, f.hr)
        l3 == Append(l2, HasEntry(tableRecords, h2))
        c2 == createRecordsTable(db1, f.cr)
    IN  IF h1.err # nil THEN [tables |-> db, log |-> l1, err |-> h1.err]
        ELSE IF ~h1.exists /\ c1.err # nil
             THEN [tables |-> db1, log |-> l2, err |-> c1.err]
        ELSE IF h2.err # nil THEN [tables |-> db1, log |-> l3, err |-> h2.err]
        ELSE IF h2.exists THEN [tables |-> db1, log |-> l3, err |-> nil]
        ELSE [tables |-> c2.tables,
              log |-> Append(l3, CreateEntry(tableRecords, c2)),
              err |-> c2.err]

Faults == [ha : HasFaults, ca : ExecFaults, hr : HasFaults, cr : ExecFaults]

\* ---------------------------------------------------------- internalNew
\* url.Parse and sql.Open do not touch the database; the first statement is
\* sent by createTables.  urlOK is the outcome of url.Parse and sql.Open on
\* the caller's connection parameters.  The context is built only when err
\* is nil.
internalNew(db, f, urlOK) ==
    IF ~urlOK THEN [tables |-> db, log |-> <<>>, err |-> "connect"]
    ELSE createTables(db, f)

\* ------------------------------------------------------------------ Put
\* Returns (0, nil, nil) and writes nothing.
Put(hashes) == [ts |-> 0, results |-> <<>>, err |-> nil]

\* ------------------------------------------------------------ flush job
\* The function New registers with cron.AddFunc: its body is empty.
\* st is the state the job could touch.

\* A variant that creates an anchor row although nothing is pending.
flushFuncEmptyAnchor(st) ==
    [st EXCEPT !.anchors = @ \cup {[merkle |-> 0, hashes |-> <<>>,
                                    tx_hash |-> NULL,
                                    chain_timestamp |-> NULL,
                                    flush_timestamp |-> 0]}]

flushFunc(st) == st

JobState ==
    [anchors |-> anchors, records |-> records, mutex |-> mutex,
     walletCalls |-> walletCalls]

\* ---------------------------------------------------------------- Init
Init ==
    /\ tables \in SUBSET TableNames
    /\ anchors = {}
    /\ records = {}
    /\ pg = "none"
    /\ newErr = nil
    /\ ctErr = nil
    /\ ctBefore = tables
    /\ dblog = <<>>
    /\ mutex = "unlocked"
    /\ running = 0
    /\ fired = 0
    /\ completed = 0
    /\ walletCalls = 0
    /\ accepted = {}
    /\ putRet = [ts |-> 0, results |-> <<>>, err |-> "none"]
    /\ restarts = 0

\* -------------------------------------------------------------- actions
\* New: internalNew, then dcrtimewallet.New, then cron.AddFunc and
\* cron.Start.  walletOK is the outcome of dcrtimewallet.New.  The schedule
\* is the constant flushSchedule, which cron parses, so AddFunc succeeds.
New(f, urlOK, walletOK) ==
    /\ pg = "none"
    /\ LET r == internalNew(tables, f, urlOK)
       IN  /\ tables' = r.tables
           /\ dblog' = r.log
           /\ ctBefore' = tables
           /\ ctErr' = IF urlOK THEN r.err ELSE nil
           /\ newErr' = IF r.err # nil THEN r.err
                        ELSE IF ~walletOK THEN "wallet" ELSE nil
           /\ pg' = IF r.err = nil /\ walletOK THEN "up" ELSE "failed"
    /\ UNCHANGED <<anchors, records, mutex, running, fired, completed,
                   walletCalls, accepted, putRet, restarts>>

\* A client calls Put on the running backend.
PutCall(hashes) ==
    /\ pg = "up"
    /\ LET r == Put(hashes)
       IN  /\ putRet' = r
           /\ accepted' = IF r.err = nil THEN accepted \cup Range(hashes)
                          ELSE accepted
    /\ UNCHANGED <<tables, anchors, records, pg, newErr, ctErr, ctBefore, dblog,
                   mutex, running, fired, completed, walletCalls, restarts>>

\* The scheduler reaches flushSchedule: cron starts the registered job in a
\* goroutine of its own, whether or not an earlier one is still running.
Tick ==
    /\ pg = "up"
    /\ fired < MaxTicks
    /\ fired' = fired + 1
    /\ running' = running + 1
    /\ UNCHANGED <<tables, anchors, records, pg, newErr, ctErr, ctBefore, dblog,
                   mutex, completed, walletCalls, accepted, putRet, restarts>>

\* A flush job goroutine runs the registered function and returns.
FlushJob ==
    /\ running > 0
    /\ LET st == flushFunc(JobState)
       IN  /\ anchors' = st.anchors
           /\ records' = st.records
           /\ mutex' = st.mutex
           /\ walletCalls' = st.walletCalls
    /\ running' = running - 1
    /\ completed' = completed + 1
    /\ UNCHANGED <<tables, pg, newErr, ctErr, ctBefore, dblog, fired, accepted,
                   putRet, restarts>>

\* The process ends (exit after a failed New, shutdown or crash): the
\* context, the lock and the goroutines are gone, the database stays.
Exit ==
    /\ pg # "none"
    /\ restarts < MaxRestarts
    /\ restarts' = restarts + 1
    /\ pg' = "none"
    /\ mutex' = "unlocked"
    /\ running' = 0
    /\ fired' = 0
    /\ completed' = 0
    /\ walletCalls' = 0
    /\ UNCHANGED <<tables, anchors, records, newErr, ctErr, ctBefore, dblog,
                   accepted, putRet>>

Next ==
    \/ \E f \in Faults, u \in BOOLEAN, w \in BOOLEAN : New(f, u, w)
    \/ \E h \in SeqsUpTo(Digests, MaxPutLen) : PutCall(h)
    \/ Tick
    \/ FlushJob
    \/ Exit

Spec == Init /\ [][Next]_vars

\* ----------------------------------------------------------- properties

\* C1: at most one flush cycle runs at a time; a tick that arrives while a
\* flush is in progress starts no second one.
AtMostOneFlushRuns == running <= 1

\* C3: after any sequence of Put calls the digest store holds exactly one
\* row for each distinct digest value that a successful Put was given.
PutStoresOneRowPerDigest ==
    \A d \in accepted : Cardinality({r \in records : r.digest = d}) = 1

\* C4: a digest accepted by Put is at every moment either pending or a
\* member of exactly one stored batch; it is never lost.
IsPending(d) == \E r \in PendingDigests : r.digest = d

BatchesOf(d) ==
    {a \in anchors : d \in Range(a.hashes)
                     /\ \E r \in records : /\ r.digest = d
                                           /\ r.anchor_merkle = a.merkle}

AcceptedDigestPendingOrBatched ==
    \A d \in accepted : IsPending(d) \/ Cardinality(BatchesOf(d)) = 1

\* C6: a flush job that finds no pending digest leaves the stored batches as
\* they were and makes no call on the wallet.
EmptyWindowNoBatch ==
    [][(completed' = completed + 1 /\ PendingDigests = {})
         => (anchors' = anchors /\ walletCalls' = walletCalls)]_vars

EmptyWindowFlushed ==
    /\ pg = "up"
    /\ completed > 0
    /\ PendingDigests = {}
    /\ anchors = {}

\* C10: createTables sends hasTable(anchors), the creation of anchors only
\* if that check reported it absent, hasTable(records), the creation of
\* records only if that check reported it absent, in this order; the first
\* failing statement is the last one sent and its error is returned; a table
\* present before the call is not created again; a nil return means both
\* tables exist.
CreatedBy(L) ==
    {L[i].name : i \in {j \in 1 .. Len(L) : L[j].op = "create" /\ L[j].err = nil}}

CreateTablesOrder ==
    /\ Len(dblog) > 0 =>
          dblog[1].op = "hasTable" /\ dblog[1].name = tableAnchors
    /\ \A i \in 1 .. Len(dblog), j \in 1 .. Len(dblog) :
          (i < j /\ dblog[i].name = tableRecords) =>
              (dblog[j].name = tableRecords /\ dblog[i].op = "hasTable"
               /\ dblog[j].op = "create")
    /\ \A i \in 1 .. Len(dblog) :
          dblog[i].op = "create" =>
              /\ i > 1
              /\ dblog[i - 1].op = "hasTable"
              /\ dblog[i - 1].name = dblog[i].name
              /\ dblog[i - 1].err = nil
              /\ ~dblog[i - 1].exists
    /\ \A i \in 1 .. Len(dblog) :
          (dblog[i].op = "hasTable" /\ dblog[i].err = nil
           /\ ~dblog[i].exists) =>
              (i < Len(dblog) /\ dblog[i + 1].op = "create"
               /\ dblog[i + 1].name = dblog[i].name)

CreateTablesFirstErrorReturned ==
    /\ \A i \in 1 .. Len(dblog) :
          dblog[i].err # nil => (i = Len(dblog) /\ ctErr = dblog[i].err)
    /\ ctErr # nil =>
          (Len(dblog) > 0 /\ dblog[Len(dblog)].err = ctErr)

CreateTablesNoRecreate ==
    /\ CreatedBy(dblog) \cap ctBefore = {}
    /\ tables = ctBefore \cup CreatedBy(dblog)

CreateTablesNilMeansBoth ==
    (Len(dblog) > 0 /\ ctErr = nil) =>
        (tables = TableNames
         /\ \E i \in 1 .. Len(dblog) : dblog[i].name = tableRecords)

CreateTablesContract ==
    /\ CreateTablesOrder
    /\ CreateTablesFirstErrorReturned
    /\ CreateTablesNoRecreate
    /\ CreateTablesNilMeansBoth

\* createTables created anchors and then failed on records.
CreateTablesFailedAfterAnchors ==
    /\ pg = "failed"
    /\ ctErr # nil
    /\ tableAnchors \in tables
    /\ tableAnchors \notin ctBefore
    /\ tableRecords \notin tables
    /\ Len(dblog) >= 3

====
